---- MODULE Spec2Model ----
(***************************************************************************)
(* Model of python-package/provider.py: the Terraform resource             *)
(* "githubtok_token" (class TokenResource) and the remote token service    *)
(* it drives through an AsyncClientSession.                                 *)
(*                                                                         *)
(* Python values of different types are never compared by TLC directly:    *)
(* every optional or union-typed attribute is a tagged record              *)
(* ([tag |-> "None"], [tag |-> "date", val |-> 3], ...), so that           *)
(* `x is None` and `a != b` of the source stay plain (in)equalities.       *)
(***************************************************************************)
EXTENDS Integers, Sequences, FiniteSets, TLC

\* ------------------------------------------------------------------ bounds
\* number of remote tokens that can ever be created (ids 1..MaxId)
MaxId == 2
\* the calendar runs from day 1 to day MaxDay
MaxDay == 2
\* resolution of the remote service's expiry timestamps within one day
TicksPerDay == 2

\* the resource instances whose calls the provider serves; Main is the one
\* that is called in the sequential specifications
Instances == {"r1", "r2"}
Main == "r1"

TokenNames == {"ci", "legacy"}
RepoNames == {"org/repo1"}
PermissionNames == {"contents"}

\* ------------------------------------------------------------ value encoding
NoneV == [tag |-> "None"]
UnrefinedUnknown == [tag |-> "Unknown"]
StrV(s) == [tag |-> "str", val |-> s]
DateV(d) == [tag |-> "date", val |-> d]
SetV(S) == [tag |-> "set", val |-> S]
TimeDelta(n) == [tag |-> "timedelta", days |-> n]
DateTimeV(t) == [tag |-> "datetime", val |-> t]
Expired == [tag |-> "Expired"]

\* str(n) for n >= 0: the decimal digits, most significant first
RECURSIVE IntToStr(_)
IntToStr(n) ==
  IF n < 10 THEN <<n>> ELSE Append(IntToStr(n \div 10), n % 10)

\* int(s) for a string of decimal digits (leading zeros are accepted)
RECURSIVE StrToInt(_)
StrToInt(s) ==
  IF Len(s) = 0 THEN 0
  ELSE 10 * StrToInt(SubSeq(s, 1, Len(s) - 1)) + s[Len(s)]

\* datetime.date(): the calendar day a timestamp falls on
DateOf(t) == t \div TicksPerDay

\* Python truthiness of an optional set, as in `x or set()`
OrEmptySet(x) == IF x.tag = "set" /\ x.val # {} THEN x ELSE SetV({})

\* ------------------------------------------------------------------- state
VARIABLES
  remote,              \* the remote service's tokens: records [id, name, expires]
  nextId,              \* the id the remote service gives the next token
  today,               \* date.today()
  pc,                  \* per instance: position of its current call
  op,                  \* per instance: the entry point of its current call
  prior_state,         \* per instance: argument prior_state
  config,              \* per instance: argument config
  proposed_new_state,  \* per instance: argument proposed_new_state
  current_state,       \* per instance: argument current_state / state / id
  token_info,          \* per instance: local token_info
  new_state,           \* per instance: the value the call returned
  requires_replace,    \* per instance: the replacement list plan returned
  raised,              \* per instance: the exception that left the call
  diagnostics,         \* per instance: the Diagnostics of the call
  calls,               \* per instance: remote operations the call invoked
  session,             \* per instance: the credentialed_client() session
  tracked              \* per instance: the state the engine stores for it

vars == <<remote, nextId, today, pc, op, prior_state, config,
          proposed_new_state, current_state, token_info, new_state,
          requires_replace, raised, diagnostics, calls, session, tracked>>

remoteVars == <<remote, nextId, today>>

\* ------------------------------------------------------- TokenResourceConfig
TokenResourceConfig(id, name, expires, sr, rp, wp) ==
  [tag |-> "TokenResourceConfig", id |-> id, name |-> name,
   expires |-> expires, select_repositories |-> sr,
   read_permissions |-> rp, write_permissions |-> wp]

\* the five attributes plan_resource_change compares, in its order
ComparedFields ==
  <<"name", "expires", "select_repositories", "read_permissions",
    "write_permissions">>

\* a replacement list (list of attribute paths) as a tagged value
ListV(l) == [tag |-> "list", val |-> l]

\* lines 123-130: unset optional attributes of the proposed state get their
\* defaults; d is date.today()
ResolveDefaults(p, d) ==
  [p EXCEPT
     !.expires = IF @ = NoneV THEN DateV(d + 1) ELSE @,
     !.select_repositories = IF @ = NoneV THEN SetV({}) ELSE @,
     !.read_permissions = IF @ = NoneV THEN SetV({}) ELSE @,
     !.write_permissions = IF @ = NoneV THEN SetV({}) ELSE @]

\* a replacement list that stops at the first differing attribute
FirstDifferingAttribute(prior, p) ==
  SubSeq(SelectSeq(ComparedFields, LAMBDA f : prior[f] # p[f]), 1, 1)

\* lines 139-152: one entry per differing attribute, in source order
DifferingAttributes(prior, p) ==
  SelectSeq(ComparedFields, LAMBDA f : prior[f] # p[f])

\* an id that is marked unknown whenever nothing forces a replacement
KeptIdAlwaysUnknown(id) == UnrefinedUnknown

\* an id that is left as the proposed state has it
KeptIdAsProposed(id) == id

\* lines 156-157: without a replacement the proposed state's id is kept,
\* unless it is None: then it is marked unknown
KeptId(id) == IF id = NoneV THEN UnrefinedUnknown ELSE id

\* lines 121-162: what plan_resource_change returns (the state and the
\* replacement list; both None when there is no proposed state)
PlanResult(prior, proposed, d) ==
  IF proposed = NoneV
  THEN [state |-> NoneV, requires_replace |-> NoneV]
  ELSE LET p == ResolveDefaults(proposed, d)
       IN  IF prior # NoneV /\ (\E i \in 1..Len(ComparedFields) :
                                  prior[ComparedFields[i]] # p[ComparedFields[i]])
           THEN [state |-> [p EXCEPT !.id = UnrefinedUnknown],
                 requires_replace |-> ListV(DifferingAttributes(prior, p))]
           ELSE [state |-> [p EXCEPT !.id = KeptId(@)],
                 requires_replace |-> NoneV]

\* --------------------------------------------------------------- input sets
\* ids of states: str(token_info.id) of a token the remote service can hold
StrIds == {StrV(IntToStr(i)) : i \in 1..MaxId}
OptDates(d) == {NoneV, DateV(d), DateV(d + 1)}
Sets(S) == {SetV(T) : T \in SUBSET S}
OptSets(S) == {NoneV} \cup Sets(S)

\* states the provider has returned before (a prior or current state): the
\* id is a concrete string and the sets are sets; expires is unset in a
\* state that import_resource built
StoredStates(d) ==
  {TokenResourceConfig(i, n, e, sr, rp, wp) :
     i \in StrIds, n \in TokenNames, e \in OptDates(d),
     sr \in Sets(RepoNames), rp \in Sets(PermissionNames),
     wp \in Sets(PermissionNames)}

\* proposed states as the caller may hand them in: any attribute but the
\* name may be unset, and the computed id may be unset, unknown or a string
ProposedStates(d) ==
  {TokenResourceConfig(i, n, e, sr, rp, wp) :
     i \in {NoneV, UnrefinedUnknown} \cup StrIds, n \in TokenNames,
     e \in OptDates(d), sr \in OptSets(RepoNames),
     rp \in OptSets(PermissionNames), wp \in OptSets(PermissionNames)}

\* the configuration a proposed state is based on: the computed id is never
\* part of a configuration
ConfigOf(p) == IF p = NoneV THEN NoneV ELSE [p EXCEPT !.id = NoneV]

\* ------------------------------------------------------------------ actions
Idle(r) == pc[r] = "idle"

Init ==
  /\ remote = {}
  /\ nextId = 1
  /\ today = 1
  /\ pc = [r \in Instances |-> "idle"]
  /\ op = [r \in Instances |-> "none"]
  /\ prior_state = [r \in Instances |-> NoneV]
  /\ config = [r \in Instances |-> NoneV]
  /\ proposed_new_state = [r \in Instances |-> NoneV]
  /\ current_state = [r \in Instances |-> NoneV]
  /\ token_info = [r \in Instances |-> NoneV]
  /\ new_state = [r \in Instances |-> NoneV]
  /\ requires_replace = [r \in Instances |-> NoneV]
  /\ raised = [r \in Instances |-> NoneV]
  /\ diagnostics = [r \in Instances |-> <<>>]
  /\ calls = [r \in Instances |-> <<>>]
  /\ session = [r \in Instances |-> [acquired |-> 0, released |-> 0]]
  /\ tracked = [r \in Instances |-> NoneV]

\* a call of entry point o starts with these arguments
Enter(r, o, prior, cfg, proposed, current) ==
  /\ op' = [op EXCEPT ![r] = o]
  /\ prior_state' = [prior_state EXCEPT ![r] = prior]
  /\ config' = [config EXCEPT ![r] = cfg]
  /\ proposed_new_state' = [proposed_new_state EXCEPT ![r] = proposed]
  /\ current_state' = [current_state EXCEPT ![r] = current]

\* a finished call's frame is gone: the instance can be called again, with
\* a fresh Diagnostics
Reset(r) ==
  /\ pc[r] = "done"
  /\ pc' = [pc EXCEPT ![r] = "idle"]
  /\ Enter(r, "none", NoneV, NoneV, NoneV, NoneV)
  /\ token_info' = [token_info EXCEPT ![r] = NoneV]
  /\ new_state' = [new_state EXCEPT ![r] = NoneV]
  /\ requires_replace' = [requires_replace EXCEPT ![r] = NoneV]
  /\ raised' = [raised EXCEPT ![r] = NoneV]
  /\ diagnostics' = [diagnostics EXCEPT ![r] = <<>>]
  /\ calls' = [calls EXCEPT ![r] = <<>>]
  /\ session' = [session EXCEPT ![r] = [acquired |-> 0, released |-> 0]]
  /\ UNCHANGED remoteVars

\* the caller has taken the result of a finished call
Return(r) == Reset(r) /\ UNCHANGED tracked

\* the calendar advances between calls and while a call is suspended; a
\* finished call's result is taken (Return) on the day the call ended
TickDay ==
  /\ today < MaxDay
  /\ \A r \in Instances : pc[r] # "done"
  /\ today' = today + 1
  /\ UNCHANGED <<remote, nextId, pc, op, prior_state, config,
                 proposed_new_state, current_state, token_info, new_state,
                 requires_replace, raised, diagnostics, calls, session,
                 tracked>>

\* lines 114-162: plan_resource_change has no await: one step
PlanCall(r, prior, cfg, proposed) ==
  /\ Enter(r, "plan", prior, cfg, proposed, NoneV)
  /\ new_state' =
       [new_state EXCEPT ![r] = PlanResult(prior, proposed, today).state]
  /\ requires_replace' =
       [requires_replace EXCEPT
          ![r] = PlanResult(prior, proposed, today).requires_replace]
  /\ pc' = [pc EXCEPT ![r] = "done"]
  /\ UNCHANGED <<remoteVars, session, token_info, raised, diagnostics, calls,
                 tracked>>

\* plan_resource_change called with any stored prior state and any proposed
\* state
PlanResourceChange(r) ==
  /\ Idle(r)
  /\ \E prior \in {NoneV} \cup StoredStates(today),
        proposed \in {NoneV} \cup ProposedStates(today) :
       PlanCall(r, prior, ConfigOf(proposed), proposed)

\* an upgrade that resolves the defaults of the state it was given
UpgradedStateResolved(state) == ResolveDefaults(state, today)

\* line 229: return state
UpgradedState(state) == state

\* lines 223-229: upgrade_resource_state returns its argument
UpgradeCall(r, state) ==
  /\ Enter(r, "upgrade", NoneV, NoneV, NoneV, state)
  /\ new_state' = [new_state EXCEPT ![r] = UpgradedState(state)]
  /\ pc' = [pc EXCEPT ![r] = "done"]
  /\ UNCHANGED <<remoteVars, session, requires_replace, token_info, raised,
                 diagnostics, calls, tracked>>

\* upgrade_resource_state called with any stored state
UpgradeResourceState(r) ==
  /\ Idle(r)
  /\ \E state \in StoredStates(today) : UpgradeCall(r, state)

\* ------------------------------------------------------ remote token service
\* The AsyncClientSession of github_fine_grained_token_client, as the provider
\* uses it: tokens have unique names, ids are handed out in sequence.

\* the timestamp the service stores for a token that expires on day d
EndOfDay(d) == d * TicksPerDay + (TicksPerDay - 1)

\* FineGrainedTokenIndividualInfo of a stored token as read on day d: the
\* expiry is the marker Expired once the expiry day is over
TokenInfoOf(rec, d) ==
  [id |-> rec.id, name |-> rec.name,
   expires |-> IF rec.expires < d * TicksPerDay THEN Expired
               ELSE DateTimeV(rec.expires)]

TokensByName(n) == {rec \in remote : rec.name = n}
TokensById(i) == {rec \in remote : rec.id = i}

\* line 187, 195: permission_from_str maps a permission's name to the
\* client's permission object
permission_from_str(n) == [permission |-> n]

\* create_token arguments in which a permission named for both read and
\* write is granted READ
CreateTokenArgsReadWins(p) ==
  [name |-> p.name,
   expires |-> IF p.expires # NoneV THEN p.expires ELSE TimeDelta(1),
   scope |-> IF p.select_repositories.tag = "set"
                  /\ p.select_repositories.val # {}
             THEN [tag |-> "SelectRepositories",
                   val |-> p.select_repositories.val]
             ELSE [tag |-> "AllRepositories"],
   permissions |->
     LET rd == OrEmptySet(p.read_permissions).val
         wr == OrEmptySet(p.write_permissions).val
     IN  [k \in {permission_from_str(n) : n \in rd \cup wr} |->
            IF k.permission \in rd THEN "READ" ELSE "WRITE"]]

\* lines 178-202: the arguments of session.create_token
CreateTokenArgs(p) ==
  [name |-> p.name,
   expires |-> IF p.expires # NoneV THEN p.expires ELSE TimeDelta(1),
   scope |-> IF p.select_repositories.tag = "set"
                  /\ p.select_repositories.val # {}
             THEN [tag |-> "SelectRepositories",
                   val |-> p.select_repositories.val]
             ELSE [tag |-> "AllRepositories"],
   permissions |->
     LET rd == OrEmptySet(p.read_permissions).val
         wr == OrEmptySet(p.write_permissions).val
     IN  [k \in {permission_from_str(n) : n \in rd \cup wr} |->
            IF k.permission \in wr THEN "WRITE" ELSE "READ"]]

\* the token the service stores for a successful create_token on day d
CreatedToken(args, d) ==
  [id |-> nextId, name |-> args.name,
   expires |-> IF args.expires.tag = "date" THEN EndOfDay(args.expires.val)
               ELSE EndOfDay(d + args.expires.days)]

\* the secret create_token returns for the token with id i
TokenValue(i) == [tag |-> "secret", of |-> i]

Call(fn, args) == [fn |-> fn, args |-> args]

\* a remote operation that is awaited a second time
InvokedTwice(log, fn, args) == Append(Append(log, Call(fn, args)), Call(fn, args))

\* lines 178, 205, 220, 235, 253: one await of a remote operation, recorded
\* in the call's log
Invoked(log, fn, args) == Append(log, Call(fn, args))
Warning(summary, detail) ==
  [severity |-> "warning", summary |-> summary, detail |-> detail]
Error(summary, detail) ==
  [severity |-> "error", summary |-> summary, detail |-> detail]

\* a name conflict reported as a warning only
NameConflictWarning(name) ==
  Warning("not creating new token: ", [tag |-> "TokenNameError", name |-> name])

\* line 209: the diagnostic of a create_token that raised TokenNameError
NameConflictDiagnostic(name) ==
  Error("not creating new token: ", [tag |-> "TokenNameError", name |-> name])

\* a missing token reported as an error
NotFoundError == Error("token not found, but thats ok", NoneV)

\* line 246: the diagnostic of a read_resource whose lookup raised KeyError
NotFoundDiagnostic == Warning("token not found, but thats ok", NoneV)

\* a warning about the created token that leaves the secret out
SecretWarningRedacted(token_value) == Warning("created token: ", NoneV)

\* line 204: diagnostics.add_warning(f"created token: {token_value}")
SecretWarning(token_value) == Warning("created token: ", token_value)

\* a session that is never left
ReleasedNever(s) == s

\* lines 40-49: credentialed_client() entered, and left again
Acquired(s) == [s EXCEPT !.acquired = @ + 1]

Released(s) == [s EXCEPT !.released = @ + 1]

NoSession == [acquired |-> 0, released |-> 0]

\* ------------------------------------------------------------ state building
\* an expired token shown as expiring today
token_resource_config_expired_today(ti, d) ==
  TokenResourceConfig(
    StrV(IntToStr(ti.id)),
    ti.name,
    IF ti.expires # Expired THEN DateV(DateOf(ti.expires.val))
    ELSE DateV(d),
    SetV({}), SetV({}), SetV({}))

\* lines 85-99
token_resource_config_from_token_info(ti, d) ==
  TokenResourceConfig(
    StrV(IntToStr(ti.id)),
    ti.name,
    IF ti.expires # Expired THEN DateV(DateOf(ti.expires.val))
    ELSE DateV(d - 1),
    SetV({}), SetV({}), SetV({}))

\* the rebuilt state with the sets the remote record came with
RebuiltStateRemoteSets(ti, src, d) ==
  token_resource_config_from_token_info(ti, d)

\* lines 211-215 and 238-244: the state rebuilt from the remote record, with
\* the three sets taken from src (the config, or the current state)
RebuiltState(ti, src, d) ==
  [token_resource_config_from_token_info(ti, d) EXCEPT
     !.select_repositories = OrEmptySet(src.select_repositories),
     !.read_permissions = OrEmptySet(src.read_permissions),
     !.write_permissions = OrEmptySet(src.write_permissions)]

\* ------------------------------------------------------------- apply inputs
\* proposed states handed to apply: the id is what plan left there
ApplyProposedStates(d) ==
  {p \in ProposedStates(d) : p.id = UnrefinedUnknown}

\* the configurations a proposed state can be based on: an attribute the
\* configuration sets is the proposed state's; one it leaves unset is
\* computed (proposed holds whatever the caller or an earlier plan put there)
ConfigsOf(p) ==
  {[ConfigOf(p) EXCEPT !.select_repositories = sr, !.read_permissions = rp,
                       !.write_permissions = wp] :
     sr \in {NoneV, p.select_repositories},
     rp \in {NoneV, p.read_permissions},
     wp \in {NoneV, p.write_permissions}}

\* prior states handed to apply together with the proposed state p: stored
\* states that agree with the resolved p in all but id and name
ApplyPriorStates(p, d) ==
  {[ResolveDefaults(p, d) EXCEPT !.id = i, !.name = n] :
     i \in StrIds, n \in TokenNames}

\* ids handed to import_resource: decimal strings, one with a leading zero
ImportIds == {IntToStr(i) : i \in 1..MaxId} \cup {<<0, 1>>}

\* ---------------------------------------------------- apply_resource_change
\* an apply that creates only when there is no prior state
TakesCreatePathWithoutPrior(prior, proposed) ==
  proposed # NoneV /\ prior = NoneV

\* line 173: the create path is taken whenever there is a proposed state
TakesCreatePath(prior, proposed) == proposed # NoneV

\* a delete of the token after the one the prior state names
DeleteTokenArgsNextId(prior) == [id |-> StrToInt(prior.id.val) + 1]

\* line 220: the argument of session.delete_token_by_id
DeleteTokenArgs(prior) == [id |-> StrToInt(prior.id.val)]

\* lines 171-204, 208-210, 216-221: the call enters the session.  With a
\* proposed state it awaits create_token: a name conflict ends the call with
\* an error, a success records the secret and suspends at
\* get_token_info_by_name.  Without a proposed state and without a prior
\* state it returns at once; otherwise the prior id must be a string and the
\* token with that id is deleted.
ApplyCall(r, prior, cfg, proposed) ==
  /\ Enter(r, "apply", prior, cfg, proposed, NoneV)
  /\ IF TakesCreatePath(prior, proposed)
     THEN LET args == CreateTokenArgs(proposed)
          IN  /\ calls' = [calls EXCEPT
                             ![r] = Invoked(@, "create_token", args)]
              /\ UNCHANGED raised
              /\ IF TokensByName(args.name) # {}
                 THEN /\ diagnostics' =
                           [diagnostics EXCEPT
                              ![r] = Append(@, NameConflictDiagnostic(args.name))]
                      /\ session' = [session EXCEPT ![r] = Released(Acquired(@))]
                      /\ pc' = [pc EXCEPT ![r] = "done"]
                      /\ UNCHANGED <<remote, nextId>>
                 ELSE /\ nextId <= MaxId
                      /\ remote' = remote \cup {CreatedToken(args, today)}
                      /\ nextId' = nextId + 1
                      /\ diagnostics' =
                           [diagnostics EXCEPT
                              ![r] = Append(@, SecretWarning(TokenValue(nextId)))]
                      /\ session' = [session EXCEPT ![r] = Acquired(@)]
                      /\ pc' = [pc EXCEPT ![r] = "apply_created"]
     ELSE /\ IF prior = NoneV
             THEN UNCHANGED <<remote, calls, raised>>
             ELSE IF prior.id.tag # "str"
             THEN /\ raised' = [raised EXCEPT ![r] = [tag |-> "AssertionError"]]
                  /\ UNCHANGED <<remote, calls>>
             ELSE /\ calls' = [calls EXCEPT
                                 ![r] = Invoked(@, "delete_token_by_id",
                                                DeleteTokenArgs(prior))]
                  /\ remote' = remote \ TokensById(DeleteTokenArgs(prior).id)
                  /\ UNCHANGED raised
          /\ session' = [session EXCEPT ![r] = Released(Acquired(@))]
          /\ pc' = [pc EXCEPT ![r] = "done"]
          /\ UNCHANGED <<nextId, diagnostics>>
  /\ UNCHANGED <<today, token_info, new_state, requires_replace, tracked>>

\* apply_resource_change called with any proposed state a plan can have
\* left, a configuration it can be based on, and any stored prior state
ApplyResourceChange(r) ==
  /\ Idle(r)
  /\ \E proposed \in {NoneV} \cup ApplyProposedStates(today) :
     \E cfg \in (IF proposed = NoneV THEN {NoneV} ELSE ConfigsOf(proposed)),
        prior \in {NoneV} \cup (IF proposed = NoneV THEN StoredStates(today)
                                ELSE ApplyPriorStates(proposed, today)) :
       ApplyCall(r, prior, cfg, proposed)

\* lines 205-207, 211-215, 221: get_token_info_by_name answers; the new
\* state is built from the record and the configuration's sets.  A missing
\* record is a KeyError, which the handler does not catch.
ApplyLookup(r) ==
  /\ pc[r] = "apply_created"
  /\ calls' = [calls EXCEPT ![r] =
                 Invoked(@, "get_token_info_by_name",
                         [name |-> proposed_new_state[r].name])]
  /\ IF TokensByName(proposed_new_state[r].name) = {}
     THEN /\ raised' = [raised EXCEPT ![r] = [tag |-> "KeyError"]]
          /\ UNCHANGED <<token_info, new_state>>
     ELSE \E rec \in TokensByName(proposed_new_state[r].name) :
            /\ token_info' = [token_info EXCEPT ![r] = TokenInfoOf(rec, today)]
            /\ new_state' =
                 [new_state EXCEPT
                    ![r] = RebuiltState(TokenInfoOf(rec, today), config[r], today)]
            /\ UNCHANGED raised
  /\ session' = [session EXCEPT ![r] = Released(@)]
  /\ pc' = [pc EXCEPT ![r] = "done"]
  /\ UNCHANGED <<remoteVars, op, prior_state, config, proposed_new_state,
                 current_state, requires_replace, diagnostics, tracked>>

\* -------------------------------------------------------------- read_resource
\* lines 231-247: one await; a missing record (KeyError) is a warning
ReadCall(r, current) ==
  /\ Enter(r, "read", NoneV, NoneV, NoneV, current)
  /\ calls' = [calls EXCEPT ![r] =
                 Invoked(@, "get_token_info_by_name", [name |-> current.name])]
  /\ IF TokensByName(current.name) = {}
     THEN /\ diagnostics' =
               [diagnostics EXCEPT ![r] = Append(@, NotFoundDiagnostic)]
          /\ UNCHANGED <<token_info, new_state>>
     ELSE \E rec \in TokensByName(current.name) :
            /\ token_info' = [token_info EXCEPT ![r] = TokenInfoOf(rec, today)]
            /\ new_state' =
                 [new_state EXCEPT
                    ![r] = RebuiltState(TokenInfoOf(rec, today), current, today)]
            /\ UNCHANGED diagnostics
  /\ session' = [session EXCEPT ![r] = Released(Acquired(@))]
  /\ pc' = [pc EXCEPT ![r] = "done"]
  /\ UNCHANGED <<remoteVars, requires_replace, raised, tracked>>

\* read_resource called with any stored state
ReadResource(r) ==
  /\ Idle(r)
  /\ \E current \in StoredStates(today) : ReadCall(r, current)

\* ------------------------------------------------------------ import_resource
\* an imported state that takes its id from the remote record
ImportedStateRecordId(id, ti) ==
  TokenResourceConfig(StrV(IntToStr(ti.id)), ti.name, NoneV,
                      SetV({}), SetV({}), SetV({}))

\* an imported state whose computed id is left unset
ImportedStateWithoutId(id, ti) ==
  TokenResourceConfig(NoneV, ti.name, NoneV, SetV({}), SetV({}), SetV({}))

\* an imported state that takes its expires from the remote record
ImportedStateWithExpires(id, ti) ==
  [token_resource_config_from_token_info(ti, today) EXCEPT !.id = StrV(id)]

\* line 254: TokenResourceConfig(id=id, name=...): expires keeps its default
\* None, the three sets their default_factory set()
ImportedState(id, ti) ==
  TokenResourceConfig(StrV(id), ti.name, NoneV, SetV({}), SetV({}), SetV({}))

\* lines 249-254: one await; a missing record (KeyError) leaves the call
ImportCall(r, id) ==
  /\ Enter(r, "import", NoneV, NoneV, NoneV, StrV(id))
  /\ calls' = [calls EXCEPT ![r] =
                 Invoked(@, "get_token_info_by_id", [id |-> StrToInt(id)])]
  /\ IF TokensById(StrToInt(id)) = {}
     THEN /\ raised' = [raised EXCEPT ![r] = [tag |-> "KeyError"]]
          /\ UNCHANGED <<token_info, new_state>>
     ELSE \E rec \in TokensById(StrToInt(id)) :
            /\ token_info' = [token_info EXCEPT ![r] = TokenInfoOf(rec, today)]
            /\ new_state' =
                 [new_state EXCEPT
                    ![r] = ImportedState(id, TokenInfoOf(rec, today))]
            /\ UNCHANGED raised
  /\ session' = [session EXCEPT ![r] = Released(Acquired(@))]
  /\ pc' = [pc EXCEPT ![r] = "done"]
  /\ UNCHANGED <<remoteVars, requires_replace, diagnostics, tracked>>

\* import_resource called with any id
ImportResource(r) ==
  /\ Idle(r)
  /\ \E id \in ImportIds : ImportCall(r, id)

\* ------------------------------------------------------------ specifications
\* the entry points that use the remote service, called one at a time
Next ==
  \/ ApplyResourceChange(Main)
  \/ ApplyLookup(Main)
  \/ ReadResource(Main)
  \/ ImportResource(Main)
  \/ Return(Main)
  \/ TickDay

Spec == Init /\ [][Next]_vars

\* the entry points without remote calls, called one at a time
NextPlan ==
  \/ PlanResourceChange(Main)
  \/ UpgradeResourceState(Main)
  \/ Return(Main)
  \/ TickDay

SpecPlan == Init /\ [][NextPlan]_vars

\* ---------------------------------------------------------------- lifecycle
\* The engine that calls the provider keeps, per resource instance, the last
\* state a call returned, and hands it back as prior / current state.

\* the state the engine tracks for r, None when it tracks none
TrackedState(r) == IF tracked[r] = NoneV THEN NoneV ELSE tracked[r].state

\* lines 57-82: the configurations a user writes: id is computed only, name
\* is required, expires is optional, the three sets are given or left out
DesiredConfigs(d) ==
  {TokenResourceConfig(NoneV, n, e, ss[1], ss[2], ss[3]) :
     n \in TokenNames, e \in {NoneV, DateV(d + 1)},
     ss \in {<<NoneV, NoneV, NoneV>>,
             <<SetV(RepoNames), SetV(PermissionNames), SetV(PermissionNames)>>}}

\* configurations that only name the token
NameOnlyConfigs(d) ==
  {TokenResourceConfig(NoneV, n, NoneV, NoneV, NoneV, NoneV) : n \in TokenNames}

\* line 174: the proposed state is based on the configuration; an attribute
\* the configuration leaves out, and the computed id, are the prior state's
ProposedFor(prior, cfg) ==
  IF prior = NoneV THEN cfg
  ELSE TokenResourceConfig(
         prior.id,
         cfg.name,
         IF cfg.expires # NoneV THEN cfg.expires ELSE prior.expires,
         IF cfg.select_repositories # NoneV THEN cfg.select_repositories
         ELSE prior.select_repositories,
         IF cfg.read_permissions # NoneV THEN cfg.read_permissions
         ELSE prior.read_permissions,
         IF cfg.write_permissions # NoneV THEN cfg.write_permissions
         ELSE prior.write_permissions)

HasErrors(r) ==
  \E i \in 1..Len(diagnostics[r]) : diagnostics[r][i].severity = "error"

\* what the engine tracks for r once the finished call has returned: a call
\* that raised or reported an error changes nothing, a plan or an upgrade
\* neither; otherwise the returned state, none when None was returned
StoredAfter(r) ==
  IF op[r] \in {"plan", "upgrade"} THEN tracked[r]
  ELSE IF raised[r] # NoneV \/ HasErrors(r) THEN tracked[r]
  ELSE IF new_state[r] = NoneV THEN NoneV
  ELSE [tag |-> "tracked", state |-> new_state[r], by |-> op[r]]

\* the engine takes the result of a finished call
ReturnToEngine(r) ==
  /\ Reset(r)
  /\ tracked' = [tracked EXCEPT ![r] = StoredAfter(r)]

\* plan_resource_change for the tracked state and a configuration, or for
\* the destruction of the tracked resource
LifecyclePlan(r, cfgs) ==
  /\ Idle(r)
  /\ \/ \E cfg \in cfgs :
          PlanCall(r, TrackedState(r), cfg, ProposedFor(TrackedState(r), cfg))
     \/ /\ tracked[r] # NoneV
        /\ PlanCall(r, TrackedState(r), NoneV, NoneV)

\* apply_resource_change for the tracked state and what a plan returned for
\* a configuration, or for the destruction of the tracked resource
LifecycleApply(r, cfgs) ==
  /\ Idle(r)
  /\ \/ \E cfg \in cfgs :
          ApplyCall(r, TrackedState(r), cfg,
                    PlanResult(TrackedState(r),
                               ProposedFor(TrackedState(r), cfg), today).state)
     \/ ApplyCall(r, TrackedState(r), NoneV, NoneV)

\* read_resource for the tracked state
LifecycleRead(r) ==
  /\ Idle(r)
  /\ tracked[r] # NoneV
  /\ ReadCall(r, TrackedState(r))

\* import_resource with an id the user gives
LifecycleImport(r) ==
  /\ Idle(r)
  /\ \E id \in ImportIds : ImportCall(r, id)

\* upgrade_resource_state for the tracked state
LifecycleUpgrade(r) ==
  /\ Idle(r)
  /\ tracked[r] # NoneV
  /\ UpgradeCall(r, TrackedState(r))

\* one resource instance, driven by the engine one call at a time
NextLifecycle ==
  \/ LifecyclePlan(Main, DesiredConfigs(today))
  \/ LifecycleApply(Main, DesiredConfigs(today))
  \/ ApplyLookup(Main)
  \/ LifecycleRead(Main)
  \/ LifecycleImport(Main)
  \/ LifecycleUpgrade(Main)
  \/ ReturnToEngine(Main)
  \/ TickDay

SpecLifecycle == Init /\ [][NextLifecycle]_vars

\* lines 40-49, 171, 233, 252: every call has a session of its own, and the
\* provider holds no lock: the calls of several instances interleave at
\* their awaits (within one day)
NextConcurrent ==
  \/ \E r \in Instances : LifecycleApply(r, NameOnlyConfigs(today))
  \/ \E r \in Instances : ApplyLookup(r)
  \/ \E r \in Instances : LifecycleRead(r)
  \/ \E r \in Instances : LifecycleImport(r)
  \/ \E r \in Instances : ReturnToEngine(r)

SpecConcurrent == Init /\ [][NextConcurrent]_vars

\* ==================================================================== claims
Done(r, o) == pc[r] = "done" /\ op[r] = o

ComparedFieldSet == {ComparedFields[i] : i \in 1..Len(ComparedFields)}
SetFields == {"select_repositories", "read_permissions", "write_permissions"}

\* the value an attribute of the proposed state p has once its default is
\* resolved on day d, stated attribute by attribute
Resolved(p, f, d) ==
  IF f = "name" THEN p.name
  ELSE IF p[f] # NoneV THEN p[f]
  ELSE IF f = "expires" THEN DateV(d + 1)
  ELSE SetV({})

\* the compared attributes in which a prior state differs from the resolved p
Differing(prior, p, d) ==
  {f \in ComparedFieldSet : prior[f] # Resolved(p, f, d)}

\* ---------------------------------------------------------------------- C1
\* C1: with a prior state present, plan_resource_change returns a replacement
\* list that holds exactly the names of the compared attributes (name,
\* expires, select_repositories, read_permissions, write_permissions) whose
\* values differ between prior and the default-resolved proposed state, each
\* once, and no replacement list when none differs, whatever the two ids are.
C1_ReplacementListIsExactlyTheDifferingFields ==
  \A r \in Instances :
    (Done(r, "plan") /\ prior_state[r] # NoneV /\ proposed_new_state[r] # NoneV)
    => LET diff == Differing(prior_state[r], proposed_new_state[r], today)
           rr == requires_replace[r]
       IN  IF diff = {}
           THEN rr = NoneV
           ELSE /\ rr.tag = "list"
                /\ {rr.val[i] : i \in 1..Len(rr.val)} = diff
                /\ Len(rr.val) = Cardinality(diff)

\* all five attributes differ at once, the ids of prior and proposed differ
\* too, and the list names all five
C1_Witness ==
  /\ Done(Main, "plan")
  /\ prior_state[Main] # NoneV
  /\ proposed_new_state[Main] # NoneV
  /\ proposed_new_state[Main].id \in StrIds
  /\ proposed_new_state[Main].id # prior_state[Main].id
  /\ Cardinality(Differing(prior_state[Main], proposed_new_state[Main], today)) = 5
  /\ requires_replace[Main].tag = "list"
  /\ Len(requires_replace[Main].val) = 5

\* ---------------------------------------------------------------------- C2
\* the case of C2: a prior state (its id is a string) and a proposed state
\* that differs from it in none of the compared attributes once resolved
NoDifferencePlan(r) ==
  /\ Done(r, "plan")
  /\ prior_state[r] # NoneV
  /\ proposed_new_state[r] # NoneV
  /\ prior_state[r].id.tag = "str"
  /\ Differing(prior_state[r], proposed_new_state[r], today) = {}

\* C2 as stated: whenever the proposed state differs from prior in none of
\* the compared attributes, plan_resource_change returns prior's id and no
\* replacement list.
C2_Original_IdIsPriorsId ==
  \A r \in Instances :
    NoDifferencePlan(r)
    => /\ new_state[r].id = prior_state[r].id
       /\ requires_replace[r] = NoneV

\* C2 amended: whenever the proposed state differs from prior in none of the
\* compared attributes, plan_resource_change returns no replacement list and
\* the id of the PROPOSED state: prior's id when the proposed state carries
\* it, and the unknown marker when the proposed state has no id.  The other
\* attributes are the resolved ones, equal to prior's.
C2_IdIsTheProposedStatesId ==
  \A r \in Instances :
    NoDifferencePlan(r)
    => /\ requires_replace[r] = NoneV
       /\ new_state[r].id =
            (IF proposed_new_state[r].id = NoneV THEN UnrefinedUnknown
             ELSE proposed_new_state[r].id)
       /\ (proposed_new_state[r].id = prior_state[r].id
             => new_state[r].id = prior_state[r].id)
       /\ \A f \in ComparedFieldSet : new_state[r][f] = prior_state[r][f]

\* the proposed state carries prior's id and leaves every optional attribute
\* unset; the defaults are what prior has, and prior's id is returned
C2_Witness ==
  /\ NoDifferencePlan(Main)
  /\ proposed_new_state[Main].id = prior_state[Main].id
  /\ proposed_new_state[Main].expires = NoneV
  /\ \A f \in SetFields : proposed_new_state[Main][f] = NoneV
  /\ new_state[Main].id = prior_state[Main].id
  /\ new_state[Main].id.tag = "str"

Fns(r) == {calls[r][i].fn : i \in 1..Len(calls[r])}
Severities(r, sev) == {i \in 1..Len(diagnostics[r]) : diagnostics[r][i].severity = sev}
SecretWarnings(r) ==
  {i \in 1..Len(diagnostics[r]) :
     /\ diagnostics[r][i].severity = "warning"
     /\ diagnostics[r][i].detail.tag = "secret"}

\* the case of C4: a finished apply whose proposed state has the name,
\* expires, scope and permissions of the prior state it was called with
UnchangedApply(r) ==
  /\ Done(r, "apply")
  /\ prior_state[r] # NoneV
  /\ proposed_new_state[r] # NoneV
  /\ \A f \in ComparedFieldSet : proposed_new_state[r][f] = prior_state[r][f]

\* C4 as stated: an apply with a prior state and an unchanged proposed state
\* issues no remote call and returns the already-applied (prior) state.
C4_Original_UnchangedApplyIsANoOp ==
  \A r \in Instances :
    UnchangedApply(r) => calls[r] = <<>> /\ new_state[r] = prior_state[r]

\* C4 amended: an apply with a prior state and an unchanged proposed state
\* takes the create path like every apply with a proposed state: its first
\* remote call is create with the proposed name and it never calls delete;
\* it returns no state together with an error (the name is taken) or the
\* state rebuilt from the lookup_by_name that follows a successful create,
\* with a freshly assigned id.  It never returns without a remote call.
C4_UnchangedApplyTakesTheCreatePath ==
  \A r \in Instances :
    UnchangedApply(r)
    => /\ Len(calls[r]) >= 1
       /\ calls[r][1].fn = "create_token"
       /\ calls[r][1].args.name = proposed_new_state[r].name
       /\ "delete_token_by_id" \notin Fns(r)
       /\ IF new_state[r] = NoneV
          THEN Len(calls[r]) = 1 /\ Severities(r, "error") # {}
          ELSE /\ Len(calls[r]) = 2
               /\ calls[r][2].fn = "get_token_info_by_name"
               /\ new_state[r].name = proposed_new_state[r].name
               /\ StrToInt(new_state[r].id.val) = nextId - 1

\* the prior state's token still exists under its name: the unchanged
\* apply calls create, meets the name conflict and returns nothing
C4_Witness ==
  /\ UnchangedApply(Main)
  /\ \E rec \in remote : /\ rec.name = prior_state[Main].name
                         /\ IntToStr(rec.id) = prior_state[Main].id.val
  /\ Len(calls[Main]) = 1
  /\ new_state[Main] = NoneV

\* ---------------------------------------------------------------------- C5
\* C5: a create-path apply whose create succeeded returns a state whose id,
\* name and expires are those of the remote record that has the proposed
\* name, and whose select_repositories, read_permissions and
\* write_permissions are the configuration's (the empty set where the
\* configuration leaves one unset), not those of the proposed state or the
\* remote record.
C5_CreatedStateJoinsRecordAndConfig ==
  \A r \in Instances :
    (Done(r, "apply") /\ proposed_new_state[r] # NoneV /\ new_state[r] # NoneV)
    => /\ TokensByName(proposed_new_state[r].name) # {}
       /\ \A rec \in TokensByName(proposed_new_state[r].name) :
            /\ new_state[r].id.tag = "str"
            /\ StrToInt(new_state[r].id.val) = rec.id
            /\ new_state[r].name = rec.name
            /\ new_state[r].expires.tag = "date"
            /\ IF rec.expires < today * TicksPerDay
               THEN new_state[r].expires.val = today - 1
               ELSE /\ new_state[r].expires.val * TicksPerDay <= rec.expires
                    /\ rec.expires < (new_state[r].expires.val + 1) * TicksPerDay
       /\ \A f \in SetFields :
            new_state[r][f] = (IF config[r][f] = NoneV THEN SetV({})
                               ELSE config[r][f])

\* the configuration leaves read_permissions unset while the proposed state
\* has one, and another token exists: the returned state has the new
\* token's id and the configuration's (empty) read_permissions
C5_Witness ==
  /\ Done(Main, "apply")
  /\ proposed_new_state[Main] # NoneV
  /\ new_state[Main] # NoneV
  /\ Cardinality(remote) = 2
  /\ config[Main].read_permissions = NoneV
  /\ proposed_new_state[Main].read_permissions = SetV(PermissionNames)
  /\ new_state[Main].read_permissions = SetV({})
  /\ config[Main].select_repositories = SetV(RepoNames)
  /\ new_state[Main].select_repositories = SetV(RepoNames)

\* ---------------------------------------------------------------------- C6
\* C6: when an apply call with a proposed state meets a name conflict (a
\* remote token already has the proposed name), the call ends in that step:
\* it returns no state, its diagnostics hold exactly one error and no secret
\* warning, create is the only remote call it made, and the remote tokens
\* are what they were.
C6_NameConflictAbortsTheApply ==
  [][\A r \in Instances :
       (/\ pc[r] = "idle"
        /\ op'[r] = "apply"
        /\ proposed_new_state'[r] # NoneV
        /\ TokensByName(proposed_new_state'[r].name) # {})
       => /\ pc'[r] = "done"
          /\ new_state'[r] = NoneV
          /\ raised'[r] = NoneV
          /\ Len(diagnostics'[r]) = 1
          /\ diagnostics'[r][1].severity = "error"
          /\ Len(calls'[r]) = 1
          /\ calls'[r][1].fn = "create_token"
          /\ remote' = remote
          /\ nextId' = nextId]_vars

\* an apply ended by a name conflict: one error, the token that holds the
\* name is still there
C6_Witness ==
  /\ Done(Main, "apply")
  /\ proposed_new_state[Main] # NoneV
  /\ TokensByName(proposed_new_state[Main].name) # {}
  /\ Len(calls[Main]) = 1
  /\ Cardinality(Severities(Main, "error")) = 1
  /\ SecretWarnings(Main) = {}
  /\ new_state[Main] = NoneV

\* ---------------------------------------------------------------------- C7
\* C7: an apply without a proposed state returns no state; without a prior
\* state it invokes no remote operation, with a prior state it invokes
\* exactly one remote operation, delete of the id the prior state names (no
\* create, no lookup).
C7_RemoveCallsDeleteOnceOrNothing ==
  \A r \in Instances :
    (Done(r, "apply") /\ proposed_new_state[r] = NoneV)
    => /\ new_state[r] = NoneV
       /\ raised[r] = NoneV
       /\ IF prior_state[r] = NoneV
          THEN calls[r] = <<>>
          ELSE /\ Len(calls[r]) = 1
               /\ calls[r][1].fn = "delete_token_by_id"
               /\ IntToStr(calls[r][1].args.id) = prior_state[r].id.val
               /\ \A rec \in remote : IntToStr(rec.id) # prior_state[r].id.val

\* a token that was created has been deleted through its prior state, while
\* another token stays
C7_Witness ==
  /\ Done(Main, "apply")
  /\ proposed_new_state[Main] = NoneV
  /\ prior_state[Main] # NoneV
  /\ StrToInt(prior_state[Main].id.val) < nextId
  /\ Len(calls[Main]) = 1
  /\ Cardinality(remote) = 1
  /\ nextId = 3

\* ---------------------------------------------------------------------- C8
\* C8: read_resource on a state whose name no remote token has returns no
\* state and records exactly one diagnostic, a warning.
C8_ReadOfMissingTokenWarns ==
  \A r \in Instances :
    (Done(r, "read") /\ TokensByName(current_state[r].name) = {})
    => /\ new_state[r] = NoneV
       /\ raised[r] = NoneV
       /\ Len(diagnostics[r]) = 1
       /\ diagnostics[r][1].severity = "warning"
       /\ Severities(r, "error") = {}

\* a read of a name nobody has while a token with the state's id exists
\* under another name
C8_Witness ==
  /\ Done(Main, "read")
  /\ TokensByName(current_state[Main].name) = {}
  /\ \E rec \in remote : IntToStr(rec.id) = current_state[Main].id.val
  /\ new_state[Main] = NoneV
  /\ Len(diagnostics[Main]) = 1

\* ---------------------------------------------------------------------- C9
\* C9: read_resource on a state whose name a remote token has returns a
\* state with that token's id and name, with the day of the token's expiry
\* or, when the record is marked expired, the day before today as expires,
\* and with the select_repositories, read_permissions and write_permissions
\* of the current state; it records no diagnostic.
C9_ReadRebuildsFromRecordAndCurrent ==
  \A r \in Instances :
    (Done(r, "read") /\ TokensByName(current_state[r].name) # {})
    => /\ new_state[r] # NoneV
       /\ raised[r] = NoneV
       /\ diagnostics[r] = <<>>
       /\ \A rec \in TokensByName(current_state[r].name) :
            /\ new_state[r].id.tag = "str"
            /\ StrToInt(new_state[r].id.val) = rec.id
            /\ new_state[r].name = rec.name
            /\ new_state[r].expires.tag = "date"
            /\ IF token_info[r].expires = Expired
               THEN new_state[r].expires.val = today - 1
               ELSE /\ new_state[r].expires.val * TicksPerDay <= rec.expires
                    /\ rec.expires < (new_state[r].expires.val + 1) * TicksPerDay
       /\ \A f \in SetFields : new_state[r][f] = current_state[r][f]

\* a read of an expired token whose id differs from the one in the current
\* state, with non-empty sets in the current state
C9_Witness ==
  /\ Done(Main, "read")
  /\ TokensByName(current_state[Main].name) # {}
  /\ token_info[Main].expires = Expired
  /\ new_state[Main].expires = DateV(today - 1)
  /\ new_state[Main].id # current_state[Main].id
  /\ \A f \in SetFields : new_state[Main][f].val # {}

\* --------------------------------------------------------------------- C10
\* C10: import_resource with an id that a remote token has invokes
\* lookup_by_id once, for that id, and returns a state with exactly the id
\* it was given, the token's name and empty select_repositories,
\* read_permissions and write_permissions.
C10_ImportReturnsGivenIdAndRemoteName ==
  \A r \in Instances :
    (Done(r, "import") /\ TokensById(StrToInt(current_state[r].val)) # {})
    => /\ new_state[r] # NoneV
       /\ raised[r] = NoneV
       /\ Len(calls[r]) = 1
       /\ calls[r][1].fn = "get_token_info_by_id"
       /\ new_state[r].id = current_state[r]
       /\ \A rec \in TokensById(StrToInt(current_state[r].val)) :
            /\ calls[r][1].args.id = rec.id
            /\ new_state[r].name = rec.name
       /\ \A f \in SetFields : new_state[r][f] = SetV({})

\* the token with id 1 imported under the id "01"
C10_Witness ==
  /\ Done(Main, "import")
  /\ current_state[Main] = StrV(<<0, 1>>)
  /\ new_state[Main] # NoneV
  /\ new_state[Main].id = StrV(<<0, 1>>)
  /\ \E rec \in remote : rec.id = 1 /\ rec.name = new_state[Main].name

\* --------------------------------------------------------------------- C11
\* C11: every state an entry point returns as resource state (plan with a
\* proposed state, apply after a successful create, read of a token that is
\* found, import, also of a token that has expired) has its expires set to a
\* concrete date, never left unset.
C11_Original_EveryReturnedStateHasAConcreteExpires ==
  \A r \in Instances :
    (pc[r] = "done" /\ op[r] \in {"plan", "apply", "read", "import"}
       /\ new_state[r] # NoneV)
    => new_state[r].expires.tag = "date"

\* --------------------------------------------------------------------- C12
\* C12: between the calls of one resource instance whose apply, read and
\* import calls are the only thing that changes the remote service, the
\* tracked state (the last state apply, read or import returned, none after
\* a remove) has a concrete string id and the remote service holds the token
\* with that id; and when a remove has ended, the token with the removed
\* state's id is gone.
C12_TrackedIdIsTheIdOfARemoteToken ==
  \A r \in Instances :
    /\ (Idle(r) /\ tracked[r] # NoneV)
       => /\ tracked[r].state.id.tag = "str"
          /\ TokensById(StrToInt(tracked[r].state.id.val)) # {}
    /\ (Done(r, "apply") /\ proposed_new_state[r] = NoneV
          /\ prior_state[r] # NoneV /\ raised[r] = NoneV)
       => TokensById(StrToInt(prior_state[r].id.val)) = {}

\* an imported state is tracked under the id "01" while the service holds
\* two tokens, after an earlier tracked state was removed
C12_Witness ==
  /\ Idle(Main)
  /\ tracked[Main] # NoneV
  /\ tracked[Main].by = "import"
  /\ tracked[Main].state.id = StrV(<<0, 1>>)
  /\ Cardinality(remote) = 2

\* --------------------------------------------------------------------- C13
\* C13: every apply, read and import call enters exactly one credential
\* session, before its first remote operation, and has left it when the call
\* has ended, on every exit path: a returned state, the early return of a
\* remove without prior state, the abort on a name conflict, and an
\* exception of a remote operation that leaves the call.  While the call is
\* suspended inside apply the session is entered once and not yet left.
C13_OneSessionPerCallReleasedOnEveryExit ==
  \A r \in Instances :
    /\ Idle(r) => session[r] = NoSession
    /\ pc[r] = "apply_created"
       => session[r] = [acquired |-> 1, released |-> 0]
    /\ (pc[r] = "done" /\ op[r] \in {"apply", "read", "import"})
       => session[r] = [acquired |-> 1, released |-> 1]
    /\ calls[r] # <<>> => session[r].acquired = 1

\* an apply whose lookup after the create raised KeyError has left its
\* session
C13_Witness ==
  /\ Done(Main, "apply")
  /\ raised[Main] = [tag |-> "KeyError"]
  /\ Fns(Main) = {"create_token", "get_token_info_by_name"}
  /\ session[Main] = [acquired |-> 1, released |-> 1]

\* --------------------------------------------------------------------- C14
\* the remote operation of a finished call failed: a create that hit a name
\* conflict (the apply neither returned a state nor raised), a lookup by
\* name that read_resource caught, or a lookup whose KeyError left the call
CreateFailed(r) ==
  /\ Done(r, "apply")
  /\ proposed_new_state[r] # NoneV
  /\ new_state[r] = NoneV
  /\ raised[r] = NoneV

ReadLookupFailed(r) == Done(r, "read") /\ new_state[r] = NoneV

UncaughtLookupFailed(r) ==
  /\ pc[r] = "done"
  /\ op[r] \in {"apply", "import"}
  /\ raised[r] = [tag |-> "KeyError"]

\* no remote operation appears twice in the log of a call
EachOperationAtMostOnce(r) ==
  \A i, j \in 1..Len(calls[r]) : i # j => calls[r][i].fn # calls[r][j].fn

\* the last remote operation of the call is one of fns
LastOperationIn(r, fns) ==
  /\ calls[r] # <<>>
  /\ calls[r][Len(calls[r])].fn \in fns

\* the diagnostics of the call that are not the warning with the secret
FailureDiagnostics(r) ==
  {i \in 1..Len(diagnostics[r]) : i \notin SecretWarnings(r)}

\* C14 as stated: each remote operation is invoked at most once per call,
\* and a call whose remote operation failed has recorded a diagnostic for
\* the failure and has invoked nothing after it.
C14_Original_EveryFailureIsADiagnostic ==
  \A r \in Instances :
    /\ EachOperationAtMostOnce(r)
    /\ (CreateFailed(r) \/ ReadLookupFailed(r) \/ UncaughtLookupFailed(r))
       => /\ FailureDiagnostics(r) # {}
          /\ LastOperationIn(r, {"create_token", "get_token_info_by_name",
                                 "get_token_info_by_id"})

\* C14: in every apply, read and import call each remote operation is
\* invoked at most once and a failed remote operation is the last one of the
\* call.  A name conflict of create is recorded as one error and a lookup
\* that read does not find as one warning; a lookup by id that import does
\* not find, and a lookup by name that fails after apply's create, leave the
\* call as a KeyError with no diagnostic for the failure.
C14_NoRetryAndFailuresEndTheCall ==
  \A r \in Instances :
    /\ EachOperationAtMostOnce(r)
    /\ CreateFailed(r)
       => /\ LastOperationIn(r, {"create_token"})
          /\ Severities(r, "error") = {1}
          /\ Len(diagnostics[r]) = 1
    /\ ReadLookupFailed(r)
       => /\ LastOperationIn(r, {"get_token_info_by_name"})
          /\ Severities(r, "warning") = {1}
          /\ Len(diagnostics[r]) = 1
    /\ UncaughtLookupFailed(r)
       => /\ LastOperationIn(r, IF op[r] = "import"
                                THEN {"get_token_info_by_id"}
                                ELSE {"get_token_info_by_name"})
          /\ FailureDiagnostics(r) = {}

\* an import of an id no token has: one lookup, a KeyError, no diagnostic
C14_Witness ==
  /\ Done(Main, "import")
  /\ raised[Main] = [tag |-> "KeyError"]
  /\ Len(calls[Main]) = 1
  /\ diagnostics[Main] = <<>>

\* --------------------------------------------------------------------- C15
\* the create of the apply call of r has succeeded: the call is suspended at
\* the lookup after it, or has ended otherwise than by a name conflict
CreateSucceeded(r) ==
  /\ op[r] = "apply"
  /\ \/ pc[r] = "apply_created"
     \/ /\ pc[r] = "done"
        /\ proposed_new_state[r] # NoneV
        /\ ~CreateFailed(r)

\* C15: once create has succeeded inside an apply call, the call's
\* diagnostics hold exactly one warning that carries a secret, the secret of
\* a token the service has issued, however the call ends afterwards, also
\* when the lookup by name that follows raises KeyError; a call in which
\* create did not succeed holds no warning with a secret.
C15_SecretWarningExactlyWhenCreateSucceeded ==
  \A r \in Instances :
    IF CreateSucceeded(r)
    THEN /\ Cardinality(SecretWarnings(r)) = 1
         /\ \A i \in SecretWarnings(r) :
              /\ diagnostics[r][i].summary = "created token: "
              /\ diagnostics[r][i].detail \in {TokenValue(k) : k \in 1..(nextId - 1)}
    ELSE SecretWarnings(r) = {}

\* the create succeeded, the lookup after it raised KeyError, and the
\* warning with the secret is the call's only diagnostic
C15_Witness ==
  /\ Done(Main, "apply")
  /\ raised[Main] = [tag |-> "KeyError"]
  /\ Cardinality(SecretWarnings(Main)) = 1
  /\ Len(diagnostics[Main]) = 1

\* --------------------------------------------------------------------- C16
\* C16: a plan, read, import or upgrade call invokes neither create nor
\* delete and leaves the set of remote tokens as it was before the call;
\* plan and upgrade invoke no remote operation at all and enter no session,
\* and upgrade returns the state it was given, unchanged.
C16_QueryCallsLeaveTheRemoteUnchanged ==
  [][\A r \in Instances :
       (Idle(r) /\ pc'[r] # "idle"
          /\ op'[r] \in {"plan", "read", "import", "upgrade"})
       => /\ remote' = remote
          /\ nextId' = nextId
          /\ \A i \in 1..Len(calls'[r]) :
               calls'[r][i].fn \notin {"create_token", "delete_token_by_id"}
          /\ op'[r] \in {"plan", "upgrade"}
             => /\ calls'[r] = <<>>
                /\ session'[r] = NoSession
          /\ op'[r] = "upgrade"
             => /\ pc'[r] = "done"
                /\ new_state'[r] = current_state'[r]]_vars

\* an upgrade of an imported state (expires unset) while the service holds a
\* token has returned that state
C16_Witness ==
  /\ Done(Main, "upgrade")
  /\ remote # {}
  /\ current_state[Main].expires = NoneV
  /\ new_state[Main] = current_state[Main]
  /\ calls[Main] = <<>>

\* --------------------------------------------------------------------- C17
\* the case of C17: a finished plan whose prior state is the tracked state
\* an import returned, for a configuration that sets a non-empty
\* select_repositories, read_permissions and write_permissions
PlanAfterImport(r) ==
  /\ Done(r, "plan")
  /\ tracked[r] # NoneV
  /\ tracked[r].by = "import"
  /\ prior_state[r] = tracked[r].state
  /\ config[r] # NoneV
  /\ \A f \in SetFields : config[r][f].tag = "set" /\ config[r][f].val # {}

\* C17 as stated: the plan after an import returns a replacement list that
\* names every one of name, expires, select_repositories, read_permissions
\* and write_permissions, with the id marked unknown.
C17_Original_PlanAfterImportReplacesEveryField ==
  \A r \in Instances :
    PlanAfterImport(r)
    => /\ requires_replace[r] = ListV(ComparedFields)
       /\ new_state[r].id = UnrefinedUnknown

\* C17: the plan after an import, for a configuration with non-empty scope
\* and permission sets, returns the id marked unknown and a replacement list
\* that names expires, select_repositories, read_permissions and
\* write_permissions, each once, and names name exactly when the configured
\* name is not the imported token's name.
C17_PlanAfterImportReplacesAllButAnEqualName ==
  \A r \in Instances :
    PlanAfterImport(r)
    => LET rr == requires_replace[r]
           expected == {"expires"} \cup SetFields \cup
                       (IF config[r].name # prior_state[r].name
                        THEN {"name"} ELSE {})
       IN  /\ rr.tag = "list"
           /\ {rr.val[i] : i \in 1..Len(rr.val)} = expected
           /\ Len(rr.val) = Cardinality(expected)
           /\ new_state[r].id = UnrefinedUnknown

\* the configuration keeps the imported token's name: four attributes are
\* named, name is not
C17_Witness ==
  /\ PlanAfterImport(Main)
  /\ config[Main].name = prior_state[Main].name
  /\ requires_replace[Main] =
       ListV(<<"expires", "select_repositories", "read_permissions",
               "write_permissions">>)

\* --------------------------------------------------------------------- C18
\* the names a set-valued attribute of p holds, none when it is unset
NamesIn(p, f) == IF p[f] = NoneV THEN {} ELSE p[f].val

\* the positions of create_token in the log of r's call
CreateCalls(r) ==
  {i \in 1..Len(calls[r]) : calls[r][i].fn = "create_token"}

\* C18: an apply with a proposed state invokes create exactly once, as its
\* first remote operation, with the proposed name; with the proposed expires
\* date, or a duration of one day when expires is unset; with the scope
\* AllRepositories exactly when the proposed select_repositories is unset or
\* empty and otherwise SelectRepositories of exactly that set; and with a
\* permission mapping over exactly the proposed read and write names, in
\* which every write name has WRITE and every other read name has READ.
C18_CreateArgumentsFollowTheProposedState ==
  \A r \in Instances :
    (op[r] = "apply" /\ proposed_new_state[r] # NoneV)
    => LET p == proposed_new_state[r]
           a == calls[r][1].args
           repos == NamesIn(p, "select_repositories")
           reads == NamesIn(p, "read_permissions")
           writes == NamesIn(p, "write_permissions")
       IN  /\ CreateCalls(r) = {1}
           /\ a.name = p.name
           /\ a.expires = (IF p.expires = NoneV
                           THEN [tag |-> "timedelta", days |-> 1]
                           ELSE p.expires)
           /\ (repos = {}) <=> (a.scope = [tag |-> "AllRepositories"])
           /\ (repos # {})
              => a.scope = [tag |-> "SelectRepositories", val |-> repos]
           /\ DOMAIN a.permissions =
                {permission_from_str(n) : n \in reads \cup writes}
           /\ \A n \in writes : a.permissions[permission_from_str(n)] = "WRITE"
           /\ \A n \in reads \ writes :
                a.permissions[permission_from_str(n)] = "READ"

\* a create for selected repositories with a permission named for both read
\* and write: it is granted WRITE
C18_Witness ==
  /\ op[Main] = "apply"
  /\ pc[Main] = "apply_created"
  /\ proposed_new_state[Main].expires = NoneV
  /\ proposed_new_state[Main].select_repositories = SetV(RepoNames)
  /\ proposed_new_state[Main].read_permissions = SetV(PermissionNames)
  /\ proposed_new_state[Main].write_permissions = SetV(PermissionNames)
  /\ \A n \in PermissionNames :
       calls[Main][1].args.permissions[permission_from_str(n)] = "WRITE"

\* --------------------------------------------------------------------- C19
\* C19: when the prior state of a remove is a state that apply, read or
\* import returned before, the assertion before the delete never fails: no
\* call ends with an AssertionError, and every remove with a prior state
\* finds its id to be a string and invokes delete with the number it
\* denotes.
C19_DeleteTimeAssertionNeverFails ==
  \A r \in Instances :
    /\ raised[r] # [tag |-> "AssertionError"]
    /\ (Done(r, "apply") /\ proposed_new_state[r] = NoneV
          /\ prior_state[r] # NoneV)
       => /\ prior_state[r] = tracked[r].state
          /\ prior_state[r].id.tag = "str"
          /\ Len(calls[r]) = 1
          /\ calls[r][1] = [fn |-> "delete_token_by_id",
                            args |-> [id |-> StrToInt(prior_state[r].id.val)]]

\* the remove of a state that import returned under the id "01": the token
\* with id 1 is deleted
C19_Witness ==
  /\ Done(Main, "apply")
  /\ proposed_new_state[Main] = NoneV
  /\ prior_state[Main] # NoneV
  /\ tracked[Main].by = "import"
  /\ prior_state[Main].id = StrV(<<0, 1>>)
  /\ raised[Main] = NoneV
  /\ calls[Main][1].args.id = 1
  /\ TokensById(1) = {}

\* --------------------------------------------------------------------- C20
\* the ids of the tokens whose secret the diagnostics of r's call carry: the
\* tokens this call created
CreatedByCall(r) ==
  {diagnostics[r][i].detail.of : i \in SecretWarnings(r)}

\* C20: when the calls of several instances interleave at their remote
\* operations, every state a successful create-path apply returns carries
\* the id of the token this very call created, and no two instances track
\* states that apply returned with the same remote id.
C20_Original_CreatedStateCarriesTheCallsOwnToken ==
  /\ \A r \in Instances :
       (Done(r, "apply") /\ new_state[r] # NoneV)
       => StrToInt(new_state[r].id.val) \in CreatedByCall(r)
  /\ \A r1, r2 \in Instances :
       (r1 # r2 /\ tracked[r1] # NoneV /\ tracked[r2] # NoneV
          /\ tracked[r1].by = "apply" /\ tracked[r2].by = "apply")
       => tracked[r1].state.id # tracked[r2].state.id

====
